---- MODULE Spec2Model ----
(***************************************************************************)
(* Bingo card generator (App component, BingoCard, geminiService).         *)
(*                                                                         *)
(* The model follows src/unnamed/part_000 (the App component): the pool    *)
(* sizing effect, the card assembler, the two generation handlers and the  *)
(* PDF export with its card placement loop and table pagination loop.      *)
(*                                                                         *)
(* JavaScript numbers are IEEE doubles.  Where a value can leave the range *)
(* of TLC's integers (the combination counts and a very large cardCount)   *)
(* it is carried as a "wide" natural: a little-endian sequence of limbs in *)
(* base 10^6 without leading zero limbs, << >> being zero.  Every value    *)
(* the model computes on the inputs it draws is a whole number below 2^53  *)
(* (DoubleExact states it), where double arithmetic is exact.              *)
(***************************************************************************)
EXTENDS Integers, Sequences, FiniteSets, TLC

VARIABLES
  gridRows,       \* useState gridRows
  gridCols,       \* useState gridCols
  cardCount,      \* useState cardCount (a wide natural)
  poolSize,       \* useState poolSize
  minPoolSize,    \* useState minPoolSize
  effectPending,  \* the pool sizing effect is scheduled (its deps changed)
  status,         \* useState status (GeneratorStatus)
  items,          \* useState items: the stored pool
  cards,          \* useState cards: the stored card set
  callRows,       \* gridRows in the closure of the pending handleConfirmAndGenerate
  callCols,       \* gridCols in that closure
  callCount,      \* cardCount in that closure
  providerCalls,  \* the requests generateBingoItems has sent to the provider
                  \* for the pending (or the last) generation run
  isDownloading,  \* useState isDownloading
  exportPc,       \* where handleDownloadPDF stands: "idle" | "timeout" |
                  \* "card" | "list" | "strips"
  cardElements,   \* cardElements.length
  cardIndex,      \* i of the card loop
  cursorY,        \* cursorY
  pdfPages,       \* the number of pages of pdf
  pdfImages,      \* the pdf.addImage calls, in order
  listCanvas,     \* width and height of listCanvas
  rowBreakpoints, \* rowBreakpoints
  currentSrcY,    \* currentSrcY
  remainingSrcHeight,  \* remainingSrcHeight
  strips,         \* the iterations of the table loop, in order: the source
                  \* rectangle of each and whether it was drawn
  exportOutcome,  \* how the last export ended: "none" | "saved" | "alert"
  listElement,    \* the listElement handleDownloadPDF holds: whether
                  \* getElementById found one, the rows of its tbody, and
                  \* whether it is still in the document
  shufflePc,      \* where a call of shuffleArray stands: "idle" | "call" |
                  \* "loop" | "returned"
  shuffleInput,   \* shuffleArray: the argument array
  shuffleArr,     \* shuffleArray: the local arr
  shuffleI,       \* shuffleArray: i of the loop, as a 1-based position
  shuffleJs,      \* shuffleArray: the values of j drawn so far, in order
  apiKey          \* the build has an API key: !!API_KEY of the service module

poolVars == <<gridRows, gridCols, cardCount, poolSize, minPoolSize,
              effectPending>>

genVars == <<status, items, cards, callRows, callCols, callCount,
             providerCalls>>

exportState == <<isDownloading, exportPc, cardElements, cardIndex, cursorY,
                 pdfPages, pdfImages, listCanvas, rowBreakpoints, currentSrcY,
                 remainingSrcHeight, strips, exportOutcome>>

exportVars == <<exportState, listElement>>

shuffleVars == <<shufflePc, shuffleInput, shuffleArr, shuffleI, shuffleJs>>

buildVars == <<apiKey>>

vars == <<poolVars, genVars, exportVars, shuffleVars, buildVars>>

(***************************************************************************)
(* Wide naturals                                                           *)
(***************************************************************************)
LimbBase == 1000000

RECURSIVE WideFromInt(_)
WideFromInt(n) ==
  IF n = 0 THEN << >> ELSE <<n % LimbBase>> \o WideFromInt(n \div LimbBase)

RECURSIVE WideStrip(_)
WideStrip(a) ==
  IF a = << >> THEN << >>
  ELSE IF a[Len(a)] = 0 THEN WideStrip(SubSeq(a, 1, Len(a) - 1))
  ELSE a

\* a * m + carry, m a small natural
RECURSIVE WideMulCarry(_, _, _)
WideMulCarry(a, m, carry) ==
  IF a = << >> THEN WideFromInt(carry)
  ELSE LET t == Head(a) * m + carry
       IN  <<t % LimbBase>> \o WideMulCarry(Tail(a), m, t \div LimbBase)

WideMul(a, m) == WideStrip(WideMulCarry(a, m, 0))

\* limbs i..1 of a divided by the small natural d, rem carried in from above
RECURSIVE WideDivFrom(_, _, _, _)
WideDivFrom(a, d, i, rem) ==
  IF i = 0 THEN << >>
  ELSE LET cur == rem * LimbBase + a[i]
       IN  WideDivFrom(a, d, i - 1, cur % d) \o <<cur \div d>>

WideDiv(a, d) == WideStrip(WideDivFrom(a, d, Len(a), 0))

RECURSIVE WideGeqFrom(_, _, _)
WideGeqFrom(a, b, i) ==
  IF i = 0 THEN TRUE
  ELSE IF a[i] # b[i] THEN a[i] > b[i]
  ELSE WideGeqFrom(a, b, i - 1)

\* a >= b
WideGeq(a, b) ==
  IF Len(a) # Len(b) THEN Len(a) > Len(b) ELSE WideGeqFrom(a, b, Len(a))

\* a < b
WideLess(a, b) == ~WideGeq(a, b)

\* the value of a wide natural that fits one limb
WideToInt(a) == IF a = << >> THEN 0 ELSE a[1]

IsSmall(a) == Len(a) <= 1

Max(a, b) == IF a >= b THEN a ELSE b

Min(a, b) == IF a <= b THEN a ELSE b

(***************************************************************************)
(* Pool sizing                                                             *)
(***************************************************************************)
\* the hard ceiling of the search loop
PoolCeiling == 100

\* the successive values of res in
\*   for (let i = a; i <= b; i++) res = res * (n - i + 1) / i
\* entered with the given res.  The running value is a binomial C(n, i), a
\* whole number, so the division leaves no fraction.  The range is split in
\* halves, which keeps the iterations in order and the nesting flat.
RECURSIVE resValues(_, _, _, _)
resValues(res, n, a, b) ==
  IF a > b THEN << >>
  ELSE IF a = b THEN <<WideDiv(WideMul(res, n - a + 1), a)>>
  ELSE LET mid == (a + b) \div 2
           first == resValues(res, n, a, mid)
       IN  first \o resValues(first[Len(first)], n, mid + 1, b)

\* let res = 1; the loop for i = 1..r; the final res
combinationsLoop(n, r) ==
  LET values == resValues(WideFromInt(1), n, 1, r)
  IN  IF r = 0 THEN WideFromInt(1) ELSE values[Len(values)]

\* Math.round of a value that is a whole number
MathRound(res) == res

\* mutant of getCombinations: the loop runs while i < r
getCombinationsShortLoop(n, r) ==
  IF r > n THEN << >>
  ELSE IF r = 0 \/ r = n THEN WideFromInt(1)
  ELSE LET rr == IF 2 * r > n THEN n - r ELSE r
       IN  MathRound(combinationsLoop(n, rr - 1))

getCombinations(n, r) ==
  IF r > n THEN << >>
  ELSE IF r = 0 \/ r = n THEN WideFromInt(1)
  ELSE LET rr == IF 2 * r > n THEN n - r ELSE r
       IN  MathRound(combinationsLoop(n, rr))

getItemsPerCard == gridRows * gridCols

\* mutant of breaksSearch: the search breaks on combinations > cardCount
breaksSearchStrict(n, itemsPerCard, count) ==
  LET combinations == getCombinations(n, itemsPerCard)
  IN  WideGeq(combinations, count) /\ combinations # count

\* const combinations = getCombinations(calculatedMinPool, itemsPerCard);
\* if (combinations >= cardCount) break
breaksSearch(n, itemsPerCard, count) ==
  WideGeq(getCombinations(n, itemsPerCard), count)

\* the while (true) loop run over calculatedMinPool = lo..hi in order: the
\* first value at which it breaks on its first test, 0 when it breaks at none.
\* The range is split in halves, which keeps the order and the nesting flat.
RECURSIVE searchRange(_, _, _, _)
searchRange(lo, hi, itemsPerCard, count) ==
  IF lo > hi THEN 0
  ELSE IF lo = hi THEN IF breaksSearch(lo, itemsPerCard, count) THEN lo ELSE 0
  ELSE LET mid == (lo + hi) \div 2
           left == searchRange(lo, mid, itemsPerCard, count)
       IN  IF left # 0 THEN left
           ELSE searchRange(mid + 1, hi, itemsPerCard, count)

\* calculatedMinPool when the loop is left: the loop starts at itemsPerCard
\* and, a test failing, increments and breaks once the value exceeds 100
searchMinPool(itemsPerCard, count) ==
  LET last == Max(itemsPerCard, PoolCeiling)
      hit == searchRange(itemsPerCard, last, itemsPerCard, count)
  IN  IF hit # 0 THEN hit ELSE last + 1

\* mutant of suggestedMin: Math.max(calculatedMinPool, itemsPerCard + 1) left out
suggestedMinNoFloor(itemsPerCard, count) == searchMinPool(itemsPerCard, count)

\* const suggestedMin = Math.max(calculatedMinPool, itemsPerCard + 1)
suggestedMin(itemsPerCard, count) ==
  Max(searchMinPool(itemsPerCard, count), itemsPerCard + 1)

\* useEffect(..., [cardCount, getItemsPerCard]): the whole effect
PoolSizeEffect ==
  /\ effectPending
  /\ minPoolSize' = suggestedMin(getItemsPerCard, cardCount)
  /\ poolSize' = suggestedMin(getItemsPerCard, cardCount)
  /\ effectPending' = FALSE
  /\ UNCHANGED <<gridRows, gridCols, cardCount>>
  /\ UNCHANGED <<genVars, exportVars, shuffleVars, buildVars>>

\* an event or a promise callback can run: the effect of a render runs
\* before it, and the table loop of handleDownloadPDF (no await in it) runs
\* to its end before it
Settled == ~effectPending /\ exportPc # "strips"

\* the controls of the header can be operated; the confirmation modal only
\* lies over them (no disabled attribute, no focus trap)
ControlsReachable == Settled

\* the options of the two <select> elements
GridOptions == {3, 4, 5}

\* onChange of the rows select: setGridRows(Number(e.target.value))
SetGridRows(n) ==
  /\ ControlsReachable
  /\ n # gridRows
  /\ gridRows' = n
  /\ effectPending' = TRUE
  /\ UNCHANGED <<gridCols, cardCount, poolSize, minPoolSize>>
  /\ UNCHANGED <<genVars, exportVars, shuffleVars, buildVars>>

\* onChange of the columns select: setGridCols(Number(e.target.value))
SetGridCols(n) ==
  /\ ControlsReachable
  /\ n # gridCols
  /\ gridCols' = n
  /\ effectPending' = TRUE
  /\ UNCHANGED <<gridRows, cardCount, poolSize, minPoolSize>>
  /\ UNCHANGED <<genVars, exportVars, shuffleVars, buildVars>>

\* mutant of SetCardCount: cardCount is not among the dependencies of the
\* effect
SetCardCountNoEffect(c) ==
  /\ ControlsReachable
  /\ c # cardCount
  /\ cardCount' = c
  /\ UNCHANGED <<gridRows, gridCols, poolSize, minPoolSize, effectPending>>
  /\ UNCHANGED <<genVars, exportVars, shuffleVars, buildVars>>

\* onChange of the card count input: setCardCount(parseInt(value) || 0);
\* c is what parseInt(value) || 0 yields
SetCardCount(c) ==
  /\ ControlsReachable
  /\ c # cardCount
  /\ cardCount' = c
  /\ effectPending' = TRUE
  /\ UNCHANGED <<gridRows, gridCols, poolSize, minPoolSize>>
  /\ UNCHANGED <<genVars, exportVars, shuffleVars, buildVars>>

\* onChange of the pool size input: setPoolSize(parseInt(value) || minPoolSize);
\* v is what parseInt(value) yields, 0 standing for NaN as well
SetPoolSize(v) ==
  /\ ControlsReachable
  /\ poolSize' = IF v = 0 THEN minPoolSize ELSE v
  /\ UNCHANGED <<gridRows, gridCols, cardCount, minPoolSize, effectPending>>
  /\ UNCHANGED <<genVars, exportVars, shuffleVars, buildVars>>

\* the useState initial values; the effect runs after the first render
InitPoolVars ==
  /\ gridRows = 3
  /\ gridCols = 3
  /\ cardCount = WideFromInt(30)
  /\ poolSize = 13
  /\ minPoolSize = 9
  /\ effectPending = TRUE

(***************************************************************************)
(* SpecPool: the grid and count inputs and the pool sizing effect          *)
(***************************************************************************)
\* the max attribute of the card count input
MaxCardCount == 100

\* card counts beyond TLC's integers: C(100,9) = 1902231808400,
\* C(100,9) + 1 and 10^13
WideCounts ==
  { <<808400, 902231, 1>>, <<808401, 902231, 1>>, <<0, 0, 10>> }

CardCountInputs == {WideFromInt(c) : c \in 0..MaxCardCount} \cup WideCounts

\* values typed into the pool size input (0: empty or not a number)
PoolSizeInputs == {0, 13, 60}

\* nothing generated yet; the generation handlers are not part of SpecPool
InitGenVars ==
  /\ status = "IDLE"
  /\ items = << >>
  /\ cards = << >>
  /\ callRows = 0
  /\ callCols = 0
  /\ callCount = 0
  /\ providerCalls = 0

\* handleDownloadPDF holds no list element
NoElement == [found |-> FALSE, rows |-> 0, attached |-> FALSE]

\* no export has been started
InitExportVars ==
  /\ isDownloading = FALSE
  /\ exportPc = "idle"
  /\ cardElements = 0
  /\ cardIndex = 0
  /\ cursorY = 0
  /\ pdfPages = 0
  /\ pdfImages = << >>
  /\ listCanvas = [width |-> 0, height |-> 0]
  /\ rowBreakpoints = << >>
  /\ currentSrcY = 0
  /\ remainingSrcHeight = 0
  /\ strips = << >>
  /\ exportOutcome = "none"
  /\ listElement = NoElement

\* shuffleArray is not running
InitShuffleVars ==
  /\ shufflePc = "idle"
  /\ shuffleInput = << >>
  /\ shuffleArr = << >>
  /\ shuffleI = 0
  /\ shuffleJs = << >>

InitPool ==
  /\ InitPoolVars
  /\ InitGenVars
  /\ InitExportVars
  /\ InitShuffleVars
  /\ apiKey \in BOOLEAN

NextPool ==
  \/ PoolSizeEffect
  \/ \E n \in GridOptions : SetGridRows(n)
  \/ \E n \in GridOptions : SetGridCols(n)
  \/ \E c \in CardCountInputs : SetCardCount(c)
  \/ \E v \in PoolSizeInputs : SetPoolSize(v)

SpecPool == InitPool /\ [][NextPool]_vars

\* 2^53 = 9007199254740992
TwoPow53 == <<740992, 199254, 9007>>

\* the largest product the loop of getCombinations(n, r) forms is r * C(n, r);
\* at every pool size the search visits it stays below 2^53
DoubleExact ==
  \A n \in getItemsPerCard..Min(minPoolSize, PoolCeiling) :
    Settled =>
      WideLess(WideMul(getCombinations(n, getItemsPerCard), getItemsPerCard),
               TwoPow53)

(***************************************************************************)
(* Card assembly and the generation handlers                               *)
(*                                                                         *)
(* An item is <<p, index>>: index is the number in its id (`item-${index}`)*)
(* and p stands for the content the provider gave it, so that the items of *)
(* two responses can differ.  A card is [id |-> i, cells |-> <<...>>].     *)
(* Math.random is an input: SpecShuffle explores every value of j, the     *)
(* generation handlers take the values of one of a few sequences, named by *)
(* a seed.                                                                 *)
(***************************************************************************)
MaxCards == 1

MaxPoolLen == 12

MaxSeed == 1

\* mutant of Swap: arr[i] = arr[j] only
SwapOverwrite(arr, i, j) == [arr EXCEPT ![i] = arr[j]]

\* [arr[i], arr[j]] = [arr[j], arr[i]]
Swap(arr, i, j) == [arr EXCEPT ![i] = arr[j], ![j] = arr[i]]

\* the loop  for (i = arr.length - 1; i > 0; i--)  entered at (1-based)
\* position i, j = Math.floor(Math.random() * (i + 1)) ranging over 0..i
RECURSIVE shuffleFrom(_, _)
shuffleFrom(arr, i) ==
  IF i <= 1 THEN {arr}
  ELSE UNION { shuffleFrom(Swap(arr, i, j), i - 1) : j \in 1..i }

\* every array shuffleArray(array) can return
shuffleArray(array) == shuffleFrom(array, Len(array))

\* the loop with given values of j: c holds them in order, the first is
\* drawn at position i
RECURSIVE shuffleWith(_, _, _)
shuffleWith(a, i, c) ==
  IF c = << >> THEN a
  ELSE shuffleWith(Swap(a, i, c[1]), i - 1, Tail(c))

\* Math.random() gives a value in [0, 1): here x / RandomScale with x in
\* 0..RandomScale-1
RandomScale == 16

\* the k-th value of Math.random() in the sequence named by seed
MathRandom(seed, k) == (seed + 7 * k) % RandomScale

\* j = Math.floor(Math.random() * (i + 1)) for the value x / RandomScale, at
\* the 1-based position i (the 0-based index i - 1)
drawJ(x, i) == ((x * i) \div RandomScale) + 1

\* the values of j of the c-th call of shuffleArray on an array of n
\* elements, each call making n - 1 draws
cardDraws(seed, c, n) ==
  [k \in 1..(n - 1) |->
     drawJ(MathRandom(seed, (c - 1) * (n - 1) + k), n - k + 1)]

\* shuffled.slice(0, itemsNeededPerCard)
Slice(shuffled, n) == SubSeq(shuffled, 1, Min(n, Len(shuffled)))

\* mutant of generateCards: with too few items the cards built so far (none)
\* are stored
generateCardsStoresOnAbort(pool, count, rows, cols, stored, seed) ==
  LET itemsNeededPerCard == rows * cols
  IN  IF count >= 1 /\ Len(pool) < itemsNeededPerCard
      THEN << >>
      ELSE [i \in 1..count |->
              [id |-> i,
               cells |-> Slice(shuffleWith(pool, Len(pool),
                                           cardDraws(seed, i, Len(pool))),
                               itemsNeededPerCard)]]

\* generateCards(pool, count) in a closure with the given gridRows and
\* gridCols: the value the stored card set has afterwards.  With too few
\* items the first iteration returns before setCards.
generateCards(pool, count, rows, cols, stored, seed) ==
  LET itemsNeededPerCard == rows * cols
  IN  IF count >= 1 /\ Len(pool) < itemsNeededPerCard
      THEN stored
      ELSE [i \in 1..count |->
              [id |-> i,
               cells |-> Slice(shuffleWith(pool, Len(pool),
                                           cardDraws(seed, i, Len(pool))),
                               itemsNeededPerCard)]]

\* the seeds of the sequences of Math.random values
Seeds == 0..MaxSeed

\* the provider's answers differ in content; p names the content
PoolTags == {"a", "b"}

\* itemsArray.map((item, index) => ({ id: `item-${index}`, ... }))
ProviderPool(tag, len) == [i \in 1..len |-> <<tag, i - 1>>]

\* handleStartGeneration up to its await; t is the text of the topic field
\* (no image is selected).  The button is disabled while GENERATING or
\* DETECTING.  With the status no longer SUCCESS the render takes the
\* calling list out of the document, also the one an export holds.
handleStartGeneration(t) ==
  /\ ControlsReachable
  /\ status \notin {"GENERATING", "DETECTING"}
  /\ IF t = ""
     THEN UNCHANGED <<status, listElement>>
     ELSE /\ status' = "DETECTING"
          /\ listElement' = [listElement EXCEPT !.attached = FALSE]
  /\ UNCHANGED <<items, cards, callRows, callCols, callCount, providerCalls>>
  /\ UNCHANGED <<poolVars, exportState, shuffleVars, buildVars>>

\* handleStartGeneration after detectSubject has returned; detectSubject
\* catches its own failures and returns a default subject
detectSubjectReturns ==
  /\ status = "DETECTING"
  /\ Settled
  /\ status' = "CONFIRMING"
  /\ UNCHANGED <<items, cards, callRows, callCols, callCount, providerCalls>>
  /\ UNCHANGED <<poolVars, exportVars, shuffleVars, buildVars>>

\* handleStartGeneration after detectSubject has failed inside (the request
\* or JSON.parse threw): its catch block returns { subject: "Algemeen",
\* isMath: false }, so the await returns as it does on success
detectSubjectCatches ==
  /\ status = "DETECTING"
  /\ Settled
  /\ status' = "CONFIRMING"
  /\ UNCHANGED <<items, cards, callRows, callCols, callCount, providerCalls>>
  /\ UNCHANGED <<poolVars, exportVars, shuffleVars, buildVars>>

\* the Annuleren button of the modal: setStatus(IDLE)
CancelConfirm ==
  /\ status = "CONFIRMING"
  /\ Settled
  /\ status' = "IDLE"
  /\ UNCHANGED <<items, cards, callRows, callCols, callCount, providerCalls>>
  /\ UNCHANGED <<poolVars, exportVars, shuffleVars, buildVars>>

\* handleConfirmAndGenerate up to its await; cardCount and generateCards
\* (with gridRows, gridCols) are those of the render that was clicked.
\* generateBingoItems sends its request, unless the key is missing: then it
\* throws before the request.
handleConfirmAndGenerate ==
  /\ status = "CONFIRMING"
  /\ Settled
  /\ status' = "GENERATING"
  /\ callRows' = gridRows
  /\ callCols' = gridCols
  /\ callCount' = WideToInt(cardCount)
  /\ providerCalls' = IF apiKey THEN 1 ELSE 0
  /\ UNCHANGED <<items, cards>>
  /\ UNCHANGED <<poolVars, exportVars, shuffleVars, buildVars>>

\* handleConfirmAndGenerate after generateBingoItems has returned len items
\* of content tag:
\* setItems(pool); generateCards(pool, cardCount); setStatus(SUCCESS); the
\* closure is gone
generateBingoItemsReturns(tag, len, seed) ==
  /\ status = "GENERATING"
  /\ providerCalls = 1
  /\ Settled
  /\ status' = "SUCCESS"
  /\ callRows' = 0 /\ callCols' = 0 /\ callCount' = 0
  /\ UNCHANGED providerCalls
  /\ UNCHANGED <<poolVars, exportVars, shuffleVars, buildVars>>
  /\ LET pool == ProviderPool(tag, len)
     IN  /\ items' = pool
         /\ cards' = generateCards(pool, callCount, callRows, callCols, cards,
                                   seed)

\* mutant of generateBingoItemsThrows: the request is sent a second time
\* before the run gives up
generateBingoItemsThrowsRetries ==
  /\ status = "GENERATING"
  /\ Settled
  /\ IF providerCalls = 1
     THEN /\ providerCalls' = providerCalls + 1
          /\ UNCHANGED <<status, callRows, callCols, callCount>>
     ELSE /\ status' = "ERROR"
          /\ callRows' = 0 /\ callCols' = 0 /\ callCount' = 0
          /\ UNCHANGED providerCalls
  /\ UNCHANGED <<items, cards>>
  /\ UNCHANGED <<poolVars, exportVars, shuffleVars, buildVars>>

\* handleConfirmAndGenerate after generateBingoItems has thrown: the request
\* or the parsing of its answer failed, the catch block of generateBingoItems
\* threw a new Error and the catch block of the handler runs
generateBingoItemsThrows ==
  /\ status = "GENERATING"
  /\ Settled
  /\ status' = "ERROR"
  /\ callRows' = 0 /\ callCols' = 0 /\ callCount' = 0
  /\ UNCHANGED <<items, cards, providerCalls>>
  /\ UNCHANGED <<poolVars, exportVars, shuffleVars, buildVars>>

\* handleRegenerateCardsOnly; the button is rendered while SUCCESS
handleRegenerateCardsOnly(seed) ==
  /\ ControlsReachable
  /\ status = "SUCCESS"
  /\ UNCHANGED <<status, items, callRows, callCols, callCount, providerCalls>>
  /\ UNCHANGED <<poolVars, exportVars, shuffleVars, buildVars>>
  /\ IF Len(items) > 0
     THEN cards' = generateCards(items, WideToInt(cardCount), gridRows,
                                 gridCols, cards, seed)
     ELSE UNCHANGED cards

(***************************************************************************)
(* Spec: the generation workflow                                           *)
(***************************************************************************)
\* values typed into the card count input
SmallCardCounts == {WideFromInt(c) : c \in 0..MaxCards}

\* the lengths of the pools the provider returns: one item short of the
\* smallest grid, exactly the smallest grid, and MaxPoolLen
PoolLens == {8, 9, MaxPoolLen}

TopicInputs == {"", "breuken"}

\* the state after construction, in a build with or without an API key
Init ==
  /\ InitPoolVars
  /\ InitGenVars
  /\ InitExportVars
  /\ InitShuffleVars
  /\ apiKey \in BOOLEAN

Next ==
  \/ PoolSizeEffect
  \/ \E n \in GridOptions : SetGridRows(n)
  \/ \E n \in GridOptions : SetGridCols(n)
  \/ \E c \in SmallCardCounts : SetCardCount(c)
  \/ \E t \in TopicInputs : handleStartGeneration(t)
  \/ detectSubjectReturns
  \/ detectSubjectCatches
  \/ CancelConfirm
  \/ handleConfirmAndGenerate
  \/ \E tag \in PoolTags, len \in PoolLens, seed \in Seeds :
       generateBingoItemsReturns(tag, len, seed)
  \/ generateBingoItemsThrows
  \/ \E seed \in Seeds : handleRegenerateCardsOnly(seed)

Spec == Init /\ [][Next]_vars

(***************************************************************************)
(* SpecShuffle: one call of shuffleArray, one loop iteration per step, on  *)
(* pools of distinct items                                                 *)
(***************************************************************************)
MaxShuffleLen == 4

\* mutant of shuffleChoices: j ranges over 0..i-1
shuffleChoicesExclusive(i) == 1..(i - 1)

\* j = Math.floor(Math.random() * (i + 1)): 0..i, as positions 1..i
shuffleChoices(i) == 1..i

\* const arr = [...array];  let i = arr.length - 1
shuffleCopy ==
  /\ shufflePc = "call"
  /\ shuffleArr' = shuffleInput
  /\ shuffleI' = Len(shuffleInput)
  /\ shufflePc' = "loop"
  /\ UNCHANGED <<shuffleInput, shuffleJs>>
  /\ UNCHANGED <<poolVars, genVars, exportVars, buildVars>>

\* one iteration of the loop: i > 0, draw j, swap, i--
shuffleSwap ==
  /\ shufflePc = "loop"
  /\ shuffleI > 1
  /\ \E j \in shuffleChoices(shuffleI) :
       /\ shuffleArr' = Swap(shuffleArr, shuffleI, j)
       /\ shuffleJs' = Append(shuffleJs, j)
  /\ shuffleI' = shuffleI - 1
  /\ UNCHANGED <<shufflePc, shuffleInput>>
  /\ UNCHANGED <<poolVars, genVars, exportVars, buildVars>>

\* the loop condition i > 0 fails: return arr
shuffleReturn ==
  /\ shufflePc = "loop"
  /\ shuffleI <= 1
  /\ shufflePc' = "returned"
  /\ UNCHANGED <<shuffleInput, shuffleArr, shuffleI, shuffleJs>>
  /\ UNCHANGED <<poolVars, genVars, exportVars, buildVars>>

\* shuffleArray is called with a pool of 0..MaxShuffleLen distinct items
InitShuffle ==
  /\ InitPoolVars
  /\ InitGenVars
  /\ InitExportVars
  /\ shufflePc = "call"
  /\ \E tag \in PoolTags, len \in 0..MaxShuffleLen :
       shuffleInput = ProviderPool(tag, len)
  /\ shuffleArr = << >>
  /\ shuffleI = 0
  /\ shuffleJs = << >>
  /\ apiKey \in BOOLEAN

NextShuffle ==
  \/ shuffleCopy
  \/ shuffleSwap
  \/ shuffleReturn

SpecShuffle == InitShuffle /\ [][NextShuffle]_vars

(***************************************************************************)
(* handleDownloadPDF.  Lengths on the page are millimetres, lengths of a   *)
(* canvas are pixels.  html2canvas is called with scale 2: the canvas of   *)
(* an element is twice its offsetWidth by twice its offsetHeight.  The     *)
(* element sizes are inputs; they are taken such that the divisions of the *)
(* handler come out whole, as they are carried out on integers here.       *)
(* An addImage call is [kind, page, x, y, w, h].  The handler runs up to   *)
(* its next await in one step; the table loop, which has no await, is      *)
(* shown one iteration per step and no other step can come between.        *)
(***************************************************************************)
pageWidth == 210

pageHeight == 297

margin == 10

contentWidth == pageWidth - (margin * 2)

cardWidth == 90

cardGap == 10

\* let cursorY = 30
cursorYStart == 30

\* the 10 of  cursorY = margin + 10  (reset top with slight pad)
topPad == 10

\* the 10 of  cursorY += imgHeight + 10
rowGap == 10

\* scale: 2 of both html2canvas calls
html2canvasScale == 2

\* finally { setIsDownloading(false) } after pdf.save ("saved") or after the
\* catch block ("alert")
ExportFinish(outcome) ==
  /\ exportOutcome' = outcome
  /\ isDownloading' = FALSE
  /\ exportPc' = "idle"
  /\ listElement' = NoElement

\* document.getElementById('calling-list-export') finds the element: it is
\* rendered when items.length > 0 && status === SUCCESS
listElementPresent == Len(items) > 0 /\ status = "SUCCESS"

\* the card loop is over: getElementById, then on to html2canvas of the
\* calling list, or to pdf.save
ExportAfterCards ==
  IF listElementPresent
  THEN /\ exportPc' = "list"
       /\ listElement' = [found |-> TRUE, rows |-> Len(items),
                          attached |-> TRUE]
       /\ UNCHANGED <<isDownloading, exportOutcome>>
  ELSE ExportFinish("saved")

\* mutant of handleDownloadPDF: the button is not disabled while
\* isDownloading
handleDownloadPDFNotDisabled ==
  /\ Settled
  /\ status = "SUCCESS"
  /\ isDownloading' = TRUE
  /\ exportPc' = "timeout"
  /\ cardElements' = 0
  /\ cardIndex' = 0
  /\ cursorY' = 0
  /\ pdfPages' = 0
  /\ pdfImages' = << >>
  /\ listCanvas' = [width |-> 0, height |-> 0]
  /\ rowBreakpoints' = << >>
  /\ currentSrcY' = 0
  /\ remainingSrcHeight' = 0
  /\ strips' = << >>
  /\ exportOutcome' = "none"
  /\ listElement' = NoElement
  /\ UNCHANGED <<poolVars, genVars, shuffleVars, buildVars>>

\* handleDownloadPDF up to its first await; the button is rendered while
\* SUCCESS and disabled while isDownloading
handleDownloadPDF ==
  /\ Settled
  /\ status = "SUCCESS"
  /\ ~isDownloading
  /\ isDownloading' = TRUE
  /\ exportPc' = "timeout"
  /\ cardElements' = 0
  /\ cardIndex' = 0
  /\ cursorY' = 0
  /\ pdfPages' = 0
  /\ pdfImages' = << >>
  /\ listCanvas' = [width |-> 0, height |-> 0]
  /\ rowBreakpoints' = << >>
  /\ currentSrcY' = 0
  /\ remainingSrcHeight' = 0
  /\ strips' = << >>
  /\ exportOutcome' = "none"
  /\ listElement' = NoElement
  /\ UNCHANGED <<poolVars, genVars, shuffleVars, buildVars>>

\* after the timeout: new jsPDF (one page), the title, cursorY = 30,
\* querySelectorAll('.bingo-card-export') (one element per stored card), and
\* the card loop up to its first html2canvas
exportAfterTimeout ==
  /\ exportPc = "timeout"
  /\ Settled
  /\ pdfPages' = 1
  /\ cursorY' = cursorYStart
  /\ cardElements' = Len(cards)
  /\ cardIndex' = 0
  /\ IF Len(cards) > 0
     THEN /\ exportPc' = "card"
          /\ UNCHANGED <<isDownloading, exportOutcome, listElement>>
     ELSE ExportAfterCards
  /\ UNCHANGED <<pdfImages, listCanvas, rowBreakpoints, currentSrcY,
                 remainingSrcHeight, strips>>
  /\ UNCHANGED <<poolVars, genVars, shuffleVars, buildVars>>

\* const imgHeight = (canvas.height * imgWidth) / canvas.width
imgHeightOf(canvasWidth, canvasHeight) ==
  (canvasHeight * cardWidth) \div canvasWidth

\* mutant of startsNewPage: the space is checked before every card
startsNewPageAnyColumn(colIndex, y, imgHeight) ==
  y + imgHeight > pageHeight - margin

\* if (colIndex === 0) { if (cursorY + imgHeight > pageHeight - margin) ...
startsNewPage(colIndex, y, imgHeight) ==
  colIndex = 0 /\ y + imgHeight > pageHeight - margin

\* mutant of rowTop: the cursor is not reset on a new page
rowTopCarried(newPage, y) == y

\* cursorY = margin + 10 on a new page, else cursorY as it is
rowTop(newPage, y) == IF newPage THEN margin + topPad ELSE y

\* the card loop from the return of html2canvas(cardEl) for card i to the
\* next await; w and h are offsetWidth and offsetHeight of the card element
cardCaptured(w, h) ==
  /\ exportPc = "card"
  /\ Settled
  /\ LET imgHeight == imgHeightOf(html2canvasScale * w, html2canvasScale * h)
         colIndex == cardIndex % 2
         newPage == startsNewPage(colIndex, cursorY, imgHeight)
         y == rowTop(newPage, cursorY)
         page == IF newPage THEN pdfPages + 1 ELSE pdfPages
         cursorX == margin + (colIndex * (cardWidth + cardGap))
         last == cardIndex = cardElements - 1
     IN  /\ pdfPages' = page
         /\ pdfImages' = Append(pdfImages,
                                [kind |-> "card", page |-> page, x |-> cursorX,
                                 y |-> y, w |-> cardWidth, h |-> imgHeight])
         /\ cursorY' = IF colIndex = 1 \/ last THEN y + imgHeight + rowGap ELSE y
         /\ cardIndex' = cardIndex + 1
         /\ IF last
            THEN ExportAfterCards
            ELSE UNCHANGED <<exportPc, isDownloading, exportOutcome, listElement>>
  /\ UNCHANGED <<cardElements, listCanvas, rowBreakpoints, currentSrcY,
                 remainingSrcHeight, strips>>
  /\ UNCHANGED <<poolVars, genVars, shuffleVars, buildVars>>

\* html2canvas rejects (card or list): catch, alert, finally
html2canvasFails ==
  /\ exportPc \in {"card", "list"}
  /\ Settled
  /\ ExportFinish("alert")
  /\ UNCHANGED <<cardElements, cardIndex, cursorY, pdfPages, pdfImages,
                 listCanvas, rowBreakpoints, currentSrcY, remainingSrcHeight,
                 strips>>
  /\ UNCHANGED <<poolVars, genVars, shuffleVars, buildVars>>

\* offsetTop + offsetHeight of the rows of tbody, in document order; top is
\* the offsetTop of the first of them
RECURSIVE rowBottoms(_, _)
rowBottoms(heights, top) ==
  IF heights = << >> THEN << >>
  ELSE <<top + Head(heights)>> \o rowBottoms(Tail(heights), top + Head(heights))

RECURSIVE SumSeq(_)
SumSeq(heights) ==
  IF heights = << >> THEN 0 ELSE Head(heights) + SumSeq(Tail(heights))

\* maxPageContentHeightMM / canvasToPdfRatio with
\* canvasToPdfRatio = contentWidth / listCanvas.width
maxSrcHeightPerPage(width) ==
  ((pageHeight - (margin * 2)) * width) \div contentWidth

\* mutant of pdfHeightOf: the strip height is not converted to millimetres
pdfHeightOfUnscaled(sliceHeight, width) == sliceHeight

\* sliceHeight * canvasToPdfRatio
pdfHeightOf(sliceHeight, width) == (sliceHeight * contentWidth) \div width

\* mutant of findSafeBreak: rowBreakpoints.find without the reverse
RECURSIVE findSafeBreakForward(_, _, _, _)
findSafeBreakForward(bps, i, lo, cutPoint) ==
  LET k == Len(bps) + 1 - i
  IN  IF i = 0 THEN 0
      ELSE IF bps[k] < cutPoint /\ bps[k] > lo THEN bps[k]
      ELSE findSafeBreakForward(bps, i - 1, lo, cutPoint)

\* rowBreakpoints.reverse().find(bp => bp < cutPoint && bp > currentSrcY),
\* looking from position i downwards; 0 stands for undefined (both fail the
\* test  if (safeBreak))
RECURSIVE findSafeBreak(_, _, _, _)
findSafeBreak(bps, i, lo, cutPoint) ==
  IF i = 0 THEN 0
  ELSE IF bps[i] < cutPoint /\ bps[i] > lo THEN bps[i]
  ELSE findSafeBreak(bps, i - 1, lo, cutPoint)

\* mutant of firstSliceHeight: all that remains
firstSliceHeightAll(remaining, max) == remaining

\* let sliceHeight = Math.min(remainingSrcHeight, maxSrcHeightPerPage)
firstSliceHeight(remaining, max) == Min(remaining, max)

\* sliceHeight of one iteration of the table loop
sliceHeightOf(bps, srcY, remaining, max) ==
  LET sliceHeight == firstSliceHeight(remaining, max)
  IN  IF remaining > max
      THEN LET cutPoint == srcY + sliceHeight
               safeBreak == findSafeBreak(bps, Len(bps), srcY, cutPoint)
           IN  IF safeBreak # 0 THEN safeBreak - srcY ELSE sliceHeight
      ELSE sliceHeight

\* a rowBottom * scaleFactor that is not a number: it fails every comparison
NotANumber == 0 - 1

\* from the return of html2canvas(listElement) to the while loop; w is the
\* offsetWidth of the element, above what it shows above the table, head the
\* offsetTop of the first row of tbody, heights the offsetHeight of each
\* row, all as html2canvas saw them.  The rows are measured after the await:
\* with the element out of the document by then, its offsetHeight and
\* those of its rows are 0, scaleFactor is not finite and no breakpoint is
\* a number.
listCaptured(w, above, head, heights) ==
  /\ exportPc = "list"
  /\ Settled
  /\ Len(heights) = listElement.rows
  /\ LET offsetHeight == above + head + SumSeq(heights)
         canvasHeight == html2canvasScale * offsetHeight
         scaleFactor == canvasHeight \div offsetHeight
     IN  /\ listCanvas' = [width |-> html2canvasScale * w, height |-> canvasHeight]
         /\ rowBreakpoints' =
              [r \in 1..Len(heights) |->
                 IF listElement.attached
                 THEN rowBottoms(heights, head)[r] * scaleFactor
                 ELSE NotANumber]
         /\ currentSrcY' = 0
         /\ remainingSrcHeight' = canvasHeight
         /\ IF canvasHeight > 0
            THEN /\ exportPc' = "strips"
                 /\ UNCHANGED <<isDownloading, exportOutcome, listElement>>
            ELSE ExportFinish("saved")
  /\ UNCHANGED <<cardElements, cardIndex, cursorY, pdfPages, pdfImages, strips>>
  /\ UNCHANGED <<poolVars, genVars, shuffleVars, buildVars>>

\* mutant of tableStrip: without a safe break the iteration takes nothing
tableStripWaitsForBreak(ctx) ==
  /\ exportPc = "strips"
  /\ remainingSrcHeight > 0
  /\ LET max == maxSrcHeightPerPage(listCanvas.width)
         sliceHeight == sliceHeightOf(rowBreakpoints, currentSrcY,
                                      remainingSrcHeight, max)
         noBreak == /\ remainingSrcHeight > max
                    /\ findSafeBreak(rowBreakpoints, Len(rowBreakpoints),
                                     currentSrcY, currentSrcY + max) = 0
     IN  IF noBreak
         THEN UNCHANGED exportVars
         ELSE /\ pdfPages' = pdfPages + 1
              /\ strips' = Append(strips, [srcY |-> currentSrcY,
                                           height |-> sliceHeight,
                                           drawn |-> ctx])
              /\ pdfImages' =
                   IF ctx
                   THEN Append(pdfImages,
                               [kind |-> "strip", page |-> pdfPages + 1,
                                x |-> margin, y |-> margin, w |-> contentWidth,
                                h |-> pdfHeightOf(sliceHeight, listCanvas.width)])
                   ELSE pdfImages
              /\ currentSrcY' = currentSrcY + sliceHeight
              /\ remainingSrcHeight' = remainingSrcHeight - sliceHeight
              /\ IF remainingSrcHeight - sliceHeight > 0
                 THEN UNCHANGED <<exportPc, isDownloading, exportOutcome, listElement>>
                 ELSE ExportFinish("saved")
              /\ UNCHANGED <<cardElements, cardIndex, cursorY, listCanvas,
                             rowBreakpoints>>
  /\ UNCHANGED <<poolVars, genVars, shuffleVars, buildVars>>

\* mutant of tableStrip: pdf.addPage() only when there is a context to draw
tableStripPageIfDrawn(ctx) ==
  /\ exportPc = "strips"
  /\ remainingSrcHeight > 0
  /\ LET max == maxSrcHeightPerPage(listCanvas.width)
         sliceHeight == sliceHeightOf(rowBreakpoints, currentSrcY,
                                      remainingSrcHeight, max)
         page == IF ctx THEN pdfPages + 1 ELSE pdfPages
     IN  /\ pdfPages' = page
         /\ strips' = Append(strips, [srcY |-> currentSrcY,
                                      height |-> sliceHeight, drawn |-> ctx])
         /\ pdfImages' =
              IF ctx
              THEN Append(pdfImages,
                          [kind |-> "strip", page |-> page,
                           x |-> margin, y |-> margin, w |-> contentWidth,
                           h |-> pdfHeightOf(sliceHeight, listCanvas.width)])
              ELSE pdfImages
         /\ currentSrcY' = currentSrcY + sliceHeight
         /\ remainingSrcHeight' = remainingSrcHeight - sliceHeight
         /\ IF remainingSrcHeight - sliceHeight > 0
            THEN UNCHANGED <<exportPc, isDownloading, exportOutcome, listElement>>
            ELSE ExportFinish("saved")
  /\ UNCHANGED <<cardElements, cardIndex, cursorY, listCanvas, rowBreakpoints>>
  /\ UNCHANGED <<poolVars, genVars, shuffleVars, buildVars>>

\* one iteration of  while (remainingSrcHeight > 0);  ctx tells whether
\* tempCanvas.getContext('2d') gave a context.  After the last iteration
\* pdf.save and finally.
tableStrip(ctx) ==
  /\ exportPc = "strips"
  /\ remainingSrcHeight > 0
  /\ LET max == maxSrcHeightPerPage(listCanvas.width)
         sliceHeight == sliceHeightOf(rowBreakpoints, currentSrcY,
                                      remainingSrcHeight, max)
     IN  /\ pdfPages' = pdfPages + 1
         /\ strips' = Append(strips, [srcY |-> currentSrcY,
                                      height |-> sliceHeight, drawn |-> ctx])
         /\ pdfImages' =
              IF ctx
              THEN Append(pdfImages,
                          [kind |-> "strip", page |-> pdfPages + 1,
                           x |-> margin, y |-> margin, w |-> contentWidth,
                           h |-> pdfHeightOf(sliceHeight, listCanvas.width)])
              ELSE pdfImages
         /\ currentSrcY' = currentSrcY + sliceHeight
         /\ remainingSrcHeight' = remainingSrcHeight - sliceHeight
         /\ IF remainingSrcHeight - sliceHeight > 0
            THEN UNCHANGED <<exportPc, isDownloading, exportOutcome, listElement>>
            ELSE ExportFinish("saved")
  /\ UNCHANGED <<cardElements, cardIndex, cursorY, listCanvas, rowBreakpoints>>
  /\ UNCHANGED <<poolVars, genVars, shuffleVars, buildVars>>

(***************************************************************************)
(* SpecExport: exports of a generated set.  The state it starts in is the  *)
(* one after a run for a 3x3 grid stored MaxExportCards or fewer cards and *)
(* a later run returned a pool of MaxListRows or fewer items.              *)
(***************************************************************************)
MaxExportCards == 4

MaxListRows == 4

\* offsetWidth and offsetHeight of a card element
CardElementWidths == {180}

CardElementHeights == {180, 520}

\* offsetWidth of the calling list, the height of what it shows above the
\* table, the height of thead, and the offsetHeight of a row
ListElementWidths == {95, 190}

ListAboveHeights == {20}

ListHeadHeights == {20}

RowHeights == {60, 150}

\* what the operator does while an export is under way: the selects are
\* set to 4, the card count to 1, and a new generation returns a pool of
\* one item
ExportGridInputs == {4}

ExportCardCounts == {WideFromInt(1)}

ExportPoolLens == {1}

\* many cards with a short list, or a long list with few cards
InitExport ==
  /\ gridRows = 3
  /\ gridCols = 3
  /\ \E n \in 0..MaxExportCards, r \in 0..MaxListRows :
       /\ n <= 1 \/ r <= 1
       /\ cardCount = WideFromInt(n)
       /\ minPoolSize = suggestedMin(9, WideFromInt(n))
       /\ poolSize = suggestedMin(9, WideFromInt(n))
       /\ cards = [i \in 1..n |-> [id |-> i, cells |-> ProviderPool("a", 9)]]
       /\ items = ProviderPool("b", r)
  /\ effectPending = FALSE
  /\ status = "SUCCESS"
  /\ callRows = 0
  /\ callCols = 0
  /\ callCount = 0
  /\ providerCalls = 1
  /\ InitExportVars
  /\ InitShuffleVars
  /\ apiKey = TRUE

NextExport ==
  \/ handleDownloadPDF
  \/ exportAfterTimeout
  \/ \E w \in CardElementWidths, h \in CardElementHeights : cardCaptured(w, h)
  \/ html2canvasFails
  \/ \E w \in ListElementWidths, above \in ListAboveHeights,
        head \in ListHeadHeights,
        heights \in [1..listElement.rows -> RowHeights] :
       listCaptured(w, above, head, heights)
  \/ \E ctx \in BOOLEAN : tableStrip(ctx)
  \/ PoolSizeEffect
  \/ \E n \in ExportGridInputs : SetGridRows(n)
  \/ \E n \in ExportGridInputs : SetGridCols(n)
  \/ \E c \in ExportCardCounts : SetCardCount(c)
  \/ \E t \in TopicInputs : handleStartGeneration(t)
  \/ detectSubjectReturns
  \/ detectSubjectCatches
  \/ CancelConfirm
  \/ handleConfirmAndGenerate
  \/ \E len \in ExportPoolLens : generateBingoItemsReturns("b", len, 0)
  \/ generateBingoItemsThrows
  \/ handleRegenerateCardsOnly(0)

SpecExport == InitExport /\ [][NextExport]_vars

\* the table loop is synchronous code: once entered, its iterations are run
SpecExportLoop ==
  SpecExport /\ WF_vars(\E ctx \in BOOLEAN : tableStrip(ctx))

(***************************************************************************)
(* Mathematical reference for the claims: Pascal's triangle.  It is built  *)
(* by additions only, independent of the product formula of the code.      *)
(***************************************************************************)
RECURSIVE WideAddCarry(_, _, _)
WideAddCarry(a, b, carry) ==
  IF a = << >> /\ b = << >> THEN WideFromInt(carry)
  ELSE LET x == (IF a = << >> THEN 0 ELSE Head(a))
                + (IF b = << >> THEN 0 ELSE Head(b)) + carry
       IN  <<x % LimbBase>>
           \o WideAddCarry(IF a = << >> THEN a ELSE Tail(a),
                           IF b = << >> THEN b ELSE Tail(b), x \div LimbBase)

WideAdd(a, b) == WideAddCarry(a, b, 0)

\* the largest number of cells of a card
MaxItemsPerCard ==
  LET m == CHOOSE x \in GridOptions : \A y \in GridOptions : y <= x IN m * m

\* row n + 1 from row n, columns 0 .. MaxItemsPerCard
RECURSIVE PascalNextFrom(_, _)
PascalNextFrom(row, j) ==
  IF j > Min(Len(row) + 1, MaxItemsPerCard + 1) THEN << >>
  ELSE <<IF j = 1 \/ j = Len(row) + 1 THEN WideFromInt(1)
         ELSE WideAdd(row[j - 1], row[j])>> \o PascalNextFrom(row, j + 1)

\* the m rows that follow row, built by halves to keep the nesting flat
RECURSIVE PascalBlock(_, _)
PascalBlock(row, m) ==
  IF m = 0 THEN << >>
  ELSE IF m = 1 THEN <<PascalNextFrom(row, 1)>>
  ELSE LET first == PascalBlock(row, m \div 2)
       IN  first \o PascalBlock(first[Len(first)], m - m \div 2)

\* rows 0 .. PoolCeiling + 1
PascalTriangle ==
  << <<WideFromInt(1)>> >> \o PascalBlock(<<WideFromInt(1)>>, PoolCeiling + 1)

\* the binomial coefficient C(n, k), 0 <= n <= PoolCeiling + 1 and
\* k <= MaxItemsPerCard
Binomial(n, k) == IF k > n THEN << >> ELSE PascalTriangle[n + 1][k + 1]

(***************************************************************************)
(* Claims on pool sizing (SpecPool).  In a Settled state minPoolSize is    *)
(* the value the effect computed for the current rows, cols and cardCount. *)
(***************************************************************************)
CardCountInClaimRange == \E c \in 1..MaxCardCount : cardCount = WideFromInt(c)

\* C1: for every grid shape in {3,4,5}x{3,4,5} and every cardCount in 1..100
\* the pool sizing effect yields v with v >= rows*cols+1 and
\* C(v, rows*cols) >= cardCount.
C1_PoolCoversCardCount ==
  (Settled /\ CardCountInClaimRange) =>
    /\ minPoolSize >= gridRows * gridCols + 1
    /\ WideGeq(Binomial(minPoolSize, gridRows * gridCols), cardCount)

\* C1 witness: the effect has run for a 5x5 grid and 100 cards
C1_Witness ==
  /\ Settled
  /\ gridRows = 5 /\ gridCols = 5
  /\ cardCount = WideFromInt(100)
  /\ minPoolSize = 27

\* C2 as stated: for rows=3, cols=3 and cardCount=30 the pool sizing
\* computation returns 13.
C2_Returns13 ==
  (Settled /\ gridRows = 3 /\ gridCols = 3 /\ cardCount = WideFromInt(30))
    => minPoolSize = 13

\* C2 amended: for rows=3, cols=3 and cardCount=30 the pool sizing
\* computation returns 11, the smallest n with C(n,9) >= 30.
C2_Returns11 ==
  (Settled /\ gridRows = 3 /\ gridCols = 3 /\ cardCount = WideFromInt(30))
    => minPoolSize = 11

\* C2 witness: the effect has run for the 3x3 grid and 30 cards
C2_Witness ==
  Settled /\ gridRows = 3 /\ gridCols = 3 /\ cardCount = WideFromInt(30)

\* C3: the pool size returned is minimal: with k = rows*cols, for every n
\* with k+1 <= n < result, C(n, k) < cardCount.
C3_Minimal ==
  Settled =>
    \A n \in (gridRows * gridCols + 1)..(minPoolSize - 1) :
      WideLess(Binomial(n, gridRows * gridCols), cardCount)

\* C3 witness: the effect has run for 4x4 and 100 cards and passed over
\* n = 17 before it returned 18
C3_Witness ==
  /\ Settled
  /\ gridRows = 4 /\ gridCols = 4
  /\ cardCount = WideFromInt(100)
  /\ minPoolSize = 18

\* C4 as stated: for every cardCount the value the search returns never
\* exceeds the ceiling of 100, and when the ceiling is hit (no pool size up
\* to the ceiling reaches cardCount) the returned value is exactly 100.
C4_NeverAboveCeiling ==
  Settled =>
    /\ minPoolSize <= PoolCeiling
    /\ (WideLess(Binomial(PoolCeiling, gridRows * gridCols), cardCount)
          => minPoolSize = PoolCeiling)

(***************************************************************************)
(* Claims on card assembly and the generation run (Spec).  generateCards   *)
(* is called by the second half of handleConfirmAndGenerate (with the pool *)
(* the provider returned and the captured cardCount, rows and cols) and by *)
(* handleRegenerateCardsOnly (with the stored items and the current ones). *)
(***************************************************************************)
\* cs is count cards with ids 1..count in order, each of k cells, every cell
\* an item of pool and no item twice within a card
CardsWellFormed(cs, pool, count, k) ==
  /\ Len(cs) = count
  /\ \A c \in 1..Len(cs) :
       /\ cs[c].id = c
       /\ Len(cs[c].cells) = k
       /\ \A i \in 1..Len(cs[c].cells) :
            /\ \E p \in 1..Len(pool) : pool[p] = cs[c].cells[i]
            /\ \A j \in 1..Len(cs[c].cells) :
                 cs[c].cells[i] = cs[c].cells[j] => i = j

\* the step in which generateBingoItems returns and the second half of
\* handleConfirmAndGenerate runs: the only step from GENERATING to SUCCESS.
\* The pool returned is items', the captured arguments are callCount,
\* callRows and callCols.
ProviderReturned == status = "GENERATING" /\ status' = "SUCCESS"

\* a click on "Herschud kaarten"
Reshuffled == \E seed \in Seeds : handleRegenerateCardsOnly(seed)

\* C5: for every pool of distinct items with length >= rows*cols and every
\* cardCount >= 0, generateCards stores exactly cardCount cards with ids
\* 1..cardCount in order, each of exactly rows*cols cells, every cell an
\* item of the pool and no item twice within one card.
C5_CardsWellFormed ==
  [][ /\ (ProviderReturned /\ Len(items') >= callRows * callCols)
           => CardsWellFormed(cards', items', callCount, callRows * callCols)
      /\ (Reshuffled /\ Len(items) >= gridRows * gridCols)
           => CardsWellFormed(cards', items, WideToInt(cardCount),
                              gridRows * gridCols)
    ]_vars

\* C5 witness: 30 cards of nine cells each, different from one another,
\* drawn from the stored pool of MaxPoolLen items
C5_Witness ==
  /\ status = "SUCCESS"
  /\ Len(items) = MaxPoolLen
  /\ Len(cards) = 30
  /\ \A c \in 1..Len(cards) :
       Len(cards[c].cells) = 9 /\ cards[c].cells[1][1] = items[1][1]
  /\ \E c, d \in 1..Len(cards) : cards[c].cells # cards[d].cells

\* C6: when pool.length < rows*cols and cardCount >= 1, generateCards
\* stores nothing: the stored card set is left exactly as it was.
C6_AbortKeepsStoredCards ==
  [][ /\ (ProviderReturned /\ Len(items') < callRows * callCols
            /\ callCount >= 1)
           => cards' = cards
      /\ (Reshuffled /\ Len(items) > 0
            /\ Len(items) < gridRows * gridCols
            /\ WideToInt(cardCount) >= 1)
           => cards' = cards
    ]_vars

\* C6 witness: a run has ended with a pool too small for its grid while
\* cards of another pool were stored; they are still stored
C6_Witness ==
  /\ status = "SUCCESS"
  /\ Len(items) >= 1
  /\ Len(cards) >= 1
  /\ cards[1].cells[1][1] # items[1][1]

\* C7 as stated: when the provider returns a pool with fewer than rows*cols
\* items (and at least one card is asked for), the generation run started
\* by handleConfirmAndGenerate does not end in status SUCCESS.
C7_TooSmallPoolNotSuccess ==
  [][ \A tag \in PoolTags, len \in PoolLens, seed \in Seeds :
        (generateBingoItemsReturns(tag, len, seed) /\ len < callRows * callCols
           /\ callCount >= 1)
          => status' # "SUCCESS"
    ]_vars

(***************************************************************************)
(* Claims on the export (SpecExport).  strips holds the iterations of the  *)
(* table loop of the current (or last) export, pdfImages its addImage      *)
(* calls.                                                                  *)
(***************************************************************************)
\* where strip s ends in the bitmap
StripEnd(s) == strips[s].srcY + strips[s].height

\* strip s is not the last one: it ends before the bitmap does
StripNotLast(s) == StripEnd(s) < listCanvas.height

\* the recorded row bottoms strictly between the cursor of strip s and its
\* proposed cut, cursor + max strip height
BreaksInWindow(s) ==
  { rowBreakpoints[r] : r \in 1..Len(rowBreakpoints) }
    \cap { bp \in (strips[s].srcY + 1)..
                  (strips[s].srcY + maxSrcHeightPerPage(listCanvas.width) - 1) :
             TRUE }

\* C8: for every strip that is not the last one, if a recorded row bottom
\* lies strictly between the cursor and the proposed cut, the strip ends
\* exactly at the largest recorded row bottom in that open interval.
C8_CutAtLargestRowBottom ==
  \A s \in 1..Len(strips) :
    (StripNotLast(s) /\ BreaksInWindow(s) # {})
      => /\ StripEnd(s) \in BreaksInWindow(s)
         /\ \A bp \in BreaksInWindow(s) : bp <= StripEnd(s)

\* C8 witness: a strip that is not the last, with two or more row bottoms
\* in its window, ends at the largest of them
C8_Witness ==
  \E s \in 1..Len(strips) :
    /\ StripNotLast(s)
    /\ Cardinality(BreaksInWindow(s)) >= 2
    /\ \A bp \in BreaksInWindow(s) : bp <= StripEnd(s)
    /\ StripEnd(s) \in BreaksInWindow(s)

\* the addImage calls of the card loop
CardImages == SelectSeq(pdfImages, LAMBDA img : img.kind = "card")

\* the pages the table loop has added: those beyond the page of the last card
TablePages ==
  pdfPages - (IF CardImages = << >> THEN 1
              ELSE CardImages[Len(CardImages)].page)

CeilDiv(a, b) == (a + b - 1) \div b

\* C9: for a table bitmap higher than the maximum strip height of a page,
\* table pagination adds at least ceil(totalHeight / maxStripHeight) pages.
C9_AtLeastCeilPages ==
  (exportOutcome = "saved" /\ listCanvas.width > 0
     /\ listCanvas.height > maxSrcHeightPerPage(listCanvas.width))
    => TablePages >= CeilDiv(listCanvas.height,
                             maxSrcHeightPerPage(listCanvas.width))

\* C9 witness: a saved export whose table took more pages than
\* ceil(totalHeight / maxStripHeight), the cuts having moved up to row bottoms
C9_Witness ==
  /\ exportOutcome = "saved"
  /\ listCanvas.width > 0
  /\ listCanvas.height > 2 * maxSrcHeightPerPage(listCanvas.width)
  /\ TablePages > CeilDiv(listCanvas.height,
                          maxSrcHeightPerPage(listCanvas.width))

\* the step of the card loop that places card number cardIndex
CardPlaced == exportPc = "card" /\ cardIndex' = cardIndex + 1

LastImage(images) == images[Len(images)]

\* the first card of the current row, placed last, was put on a new page
RowStartedNewPage ==
  /\ pdfImages # << >>
  /\ LastImage(pdfImages).page > 1
  /\ Len(pdfImages) > 1 => pdfImages[Len(pdfImages) - 1].page
                             < LastImage(pdfImages).page

\* C10: when the first card of a row (even index) does not fit in the
\* remaining height of the page, a new page is started and the card is
\* placed at the top padding; after the second card of that row is placed
\* the cursor equals top padding + that second card's height + gap.
C10_NewPageResetsCursor ==
  [][ CardPlaced =>
        /\ (cardIndex % 2 = 0
             /\ cursorY + LastImage(pdfImages').h > pageHeight - margin)
            => /\ pdfPages' = pdfPages + 1
               /\ LastImage(pdfImages').page = pdfPages'
               /\ LastImage(pdfImages').y = margin + topPad
        /\ (cardIndex % 2 = 1 /\ RowStartedNewPage)
            => /\ LastImage(pdfImages').page = LastImage(pdfImages).page
               /\ LastImage(pdfImages').y = margin + topPad
               /\ cursorY' = margin + topPad + LastImage(pdfImages').h + rowGap
    ]_vars

\* C10 witness: four cards; the third did not fit below the first row, so
\* the second row is on page 2 at the top padding, and the cursor is the
\* top padding + the fourth card's height + gap
C10_Witness ==
  /\ Len(pdfImages) = 4
  /\ cardIndex = 4
  /\ pdfImages[2].page = 1
  /\ pdfImages[3].page = 2 /\ pdfImages[3].y = margin + topPad
  /\ pdfImages[4].page = 2 /\ pdfImages[4].y = margin + topPad
  /\ pdfImages[3].h # pdfImages[4].h
  /\ cursorY = margin + topPad + pdfImages[4].h + rowGap

(***************************************************************************)
(* Claims on failures of the provider (Spec)                               *)
(***************************************************************************)
\* C11 as stated: if generateBingoItems fails, the run ends in status
\* ERROR, the provider has been called exactly once (no retry), and the
\* stored pool and card set are left unchanged.
C11_ProviderCalledExactlyOnce ==
  [][ generateBingoItemsThrows =>
        /\ status' = "ERROR"
        /\ providerCalls' = 1
        /\ items' = items
        /\ cards' = cards
    ]_vars

\* C11 amended: if generateBingoItems fails, the run ends in status ERROR,
\* the provider has been called at most once (no retry): once when the
\* build has an API key, not at all when the key is missing; the stored pool
\* and card set are left unchanged.
C11_ProviderFailureEndsInError ==
  [][ generateBingoItemsThrows =>
        /\ status' = "ERROR"
        /\ providerCalls' = (IF apiKey THEN 1 ELSE 0)
        /\ items' = items
        /\ cards' = cards
    ]_vars

\* C11 witness: a run has failed while a pool and cards of an earlier run
\* were stored
C11_Witness ==
  /\ status = "ERROR"
  /\ providerCalls = 1
  /\ Len(items) = MaxPoolLen
  /\ Len(cards) = MaxCards
  /\ MaxCards >= 1

\* C12 as stated: if subject detection fails inside detectSubject, after
\* handleStartGeneration the status is ERROR and not CONFIRMING.
C12_DetectionFailureEndsInError ==
  [][ detectSubjectCatches => (status' = "ERROR" /\ status' # "CONFIRMING") ]_vars

(***************************************************************************)
(* Further claims on the export (SpecExport)                               *)
(***************************************************************************)
\* the addImage calls of the table loop
StripImages == SelectSeq(pdfImages, LAMBDA img : img.kind = "strip")

\* C13 as stated: if any element of the export fails to produce a bitmap (a
\* card snapshot, the table snapshot, a missing table element, a strip
\* canvas without drawing context), the export fails: a saved document
\* holds every card, the table, and an image on every table page.
C13_SavedMeansComplete ==
  exportOutcome = "saved" =>
    /\ Len(CardImages) = cardElements
    /\ listCanvas.width > 0
    /\ \A s \in 1..Len(strips) : strips[s].drawn
    /\ Len(StripImages) = Len(strips)

(***************************************************************************)
(* Further claims on pool sizing (SpecPool)                                *)
(***************************************************************************)
\* the step in which the pool sizing effect runs
EffectRan == effectPending /\ ~effectPending'

\* C14: after any change of rows, cols or cardCount has settled,
\* minPoolSize equals the pool-sizing result for the current (rows, cols,
\* cardCount), and poolSize is reset to that same value, whatever pool size
\* the operator had entered before.
C14_EffectResetsPoolSize ==
  [][ /\ Settled' =>
           minPoolSize' = suggestedMin(gridRows' * gridCols', cardCount')
      /\ EffectRan => poolSize' = minPoolSize'
    ]_vars

\* C14 witness: rows, cols and cardCount have all been changed and the
\* effect has run: 4x5, 100 cards, both pool sizes 22
C14_Witness ==
  /\ Settled
  /\ gridRows = 4 /\ gridCols = 5
  /\ cardCount = WideFromInt(100)
  /\ minPoolSize = 22
  /\ poolSize = 22

\* the table has been captured: the table loop is running or has ended
TableCaptured == listCanvas.width > 0

RECURSIVE SumStripHeights(_)
SumStripHeights(ss) ==
  IF ss = << >> THEN 0 ELSE Head(ss).height + SumStripHeights(Tail(ss))

\* C15: the table strips partition the bitmap: at every iteration
\* currentSrcY + remainingSrcHeight is the bitmap height, the first strip
\* starts at 0, each strip starts where the previous one ended and has
\* positive height, one page is added per strip, and when the loop has
\* ended the strip heights sum to the bitmap height.
C15_StripsPartitionBitmap ==
  TableCaptured =>
    /\ currentSrcY + remainingSrcHeight = listCanvas.height
    /\ \A s \in 1..Len(strips) :
         /\ strips[s].srcY = (IF s = 1 THEN 0 ELSE StripEnd(s - 1))
         /\ strips[s].height > 0
    /\ TablePages = Len(strips)
    /\ exportPc # "strips" => SumStripHeights(strips) = listCanvas.height

\* C15 witness: a table loop has ended after three or more strips, one of
\* them cut short at a row bottom and one without an image
C15_Witness ==
  /\ TableCaptured
  /\ exportOutcome = "saved"
  /\ Len(strips) >= 3
  /\ strips[1].height < maxSrcHeightPerPage(listCanvas.width)
  /\ \E s \in 1..Len(strips) : ~strips[s].drawn
  /\ SumStripHeights(strips) = listCanvas.height

\* C16: the table pagination loop terminates for every positive bitmap
\* height, every positive maximum strip height and every list of row
\* bottoms, also when a row is higher than a page and no safe break exists.
C16_TableLoopTerminates == (exportPc = "strips") ~> (exportPc # "strips")

\* C16 witness: a table loop has ended that had a strip, not the last one,
\* without a row bottom in its window: it was cut at the maximum height
C16_Witness ==
  /\ TableCaptured
  /\ exportPc = "idle"
  /\ \E s \in 1..Len(strips) :
       /\ StripNotLast(s)
       /\ BreaksInWindow(s) = {}
       /\ strips[s].height = maxSrcHeightPerPage(listCanvas.width)

\* C17: every table strip is at most the maximum strip height that fits a
\* printable page (pageHeight - 2*margin in bitmap pixels), so each strip,
\* placed at (margin, margin), ends at or above pageHeight - margin.
C17_StripFitsPage ==
  /\ TableCaptured =>
       \A s \in 1..Len(strips) :
         strips[s].height <= maxSrcHeightPerPage(listCanvas.width)
  /\ \A n \in 1..Len(StripImages) :
       /\ StripImages[n].x = margin
       /\ StripImages[n].y = margin
       /\ StripImages[n].y + StripImages[n].h <= pageHeight - margin

\* C17 witness: a strip of the maximum height has been drawn: its image
\* ends exactly at pageHeight - margin
C17_Witness ==
  /\ TableCaptured
  /\ strips # << >>
  /\ strips[Len(strips)].height = maxSrcHeightPerPage(listCanvas.width)
  /\ strips[Len(strips)].drawn
  /\ LastImage(pdfImages).kind = "strip"
  /\ LastImage(pdfImages).y + LastImage(pdfImages).h = pageHeight - margin

\* C18: in the card loop the cursor is left unchanged after placing card i
\* unless i is odd or i is the last card; so both cards of a row are placed
\* at the same y on the same page, and after an odd number of cards the
\* cursor lies below the lone last card by its height plus the gap.
C18_CursorAdvancesPerRow ==
  [][ CardPlaced =>
        LET i == cardIndex
            last == i = cardElements - 1
            placed == LastImage(pdfImages')
        IN  /\ (i % 2 = 0 /\ ~last)
                => /\ cursorY' = placed.y
                   /\ pdfPages' = pdfPages => cursorY' = cursorY
            /\ i % 2 = 1
                => /\ placed.y = LastImage(pdfImages).y
                   /\ placed.page = LastImage(pdfImages).page
            /\ (i % 2 = 0 /\ last)
                => cursorY' = placed.y + placed.h + rowGap
    ]_vars

\* C18 witness: three cards; the first two share y and page, the cursor is
\* below the third by its height plus the gap
C18_Witness ==
  /\ cardElements = 3
  /\ cardIndex = 3
  /\ Len(CardImages) = 3
  /\ CardImages[1].y = CardImages[2].y
  /\ CardImages[1].page = CardImages[2].page
  /\ CardImages[1].h # CardImages[2].h
  /\ cursorY = CardImages[3].y + CardImages[3].h + rowGap

\* the printable height a card may have: pageHeight - 2*margin - 10
MaxCardImageHeight == pageHeight - (2 * margin) - topPad

\* C19 as stated: for every sequence of card image heights, each at most
\* pageHeight - 2*margin - 10, every card is placed with its bottom edge
\* inside the printable area: y + height <= pageHeight - margin.
C19_CardsInsidePrintableArea ==
  (\A n \in 1..Len(CardImages) : CardImages[n].h <= MaxCardImageHeight)
    => \A n \in 1..Len(CardImages) :
         CardImages[n].y + CardImages[n].h <= pageHeight - margin

\* the rearrangements of s, defined by the bijections on its positions
PermutationsOf(s) ==
  { [k \in 1..Len(s) |-> s[p[k]]] :
      p \in { q \in [1..Len(s) -> 1..Len(s)] :
                \A a, b \in 1..Len(s) : q[a] = q[b] => a = b } }

\* the sequences of values of j the loop can draw on an array of n
\* elements: the k-th draw is made at position n - k + 1
ChoiceSeqs(n) ==
  { c \in [1..(n - 1) -> 1..n] :
      \A k \in 1..(n - 1) : c[k] \in shuffleChoices(n - k + 1) }

shuffleResult(c) == shuffleWith(shuffleInput, Len(shuffleInput), c)

\* the arrays the draws of ChoiceSeqs give for the argument
shuffleResults ==
  { shuffleResult(c) : c \in ChoiceSeqs(Len(shuffleInput)) }

\* the state of a call of shuffleArray: arr is a rearrangement of the
\* argument; on return it is the result of the draws made; the sequences
\* of draws give every rearrangement, and no two of them give the same
ShuffleIsBijection ==
  /\ shufflePc \in {"loop", "returned"}
       => shuffleArr \in PermutationsOf(shuffleInput)
  /\ shufflePc = "returned"
       => /\ shuffleJs \in ChoiceSeqs(Len(shuffleInput))
          /\ shuffleArr = shuffleResult(shuffleJs)
          /\ shuffleResults = PermutationsOf(shuffleInput)
          /\ Cardinality(shuffleResults)
               = Cardinality(ChoiceSeqs(Len(shuffleInput)))
          /\ shuffleArray(shuffleInput) = shuffleResults

\* C20: shuffleArray returns a permutation of its input and leaves the
\* input unmodified; with i running from the last index down to 1 and j
\* chosen in 0..i inclusive, every permutation of the input is produced by
\* exactly one sequence of choices of j.
C20_ShuffleIsBijection ==
  [][ shuffleInput' = shuffleInput /\ ShuffleIsBijection' ]_vars

\* C20 witness: a pool of MaxShuffleLen items was shuffled, the first draw
\* was j = i (the inclusive end), and the result differs from the input
C20_Witness ==
  /\ shufflePc = "returned"
  /\ Len(shuffleInput) = MaxShuffleLen
  /\ shuffleJs[1] = MaxShuffleLen
  /\ shuffleArr # shuffleInput
  /\ shuffleArr[1] = shuffleInput[Len(shuffleInput) - 1]

\* the items of a sequence
Range(seq) == { seq[k] : k \in 1..Len(seq) }

\* C21 as stated: after any sequence of grid-shape changes, card-count
\* changes, generations and reshuffles, every stored card has exactly
\* gridRows * gridCols cells for the grid shape currently used to render it
\* (<BingoCard card={card} rows={gridRows} cols={gridCols}>).
C21_CardsMatchRenderedGrid ==
  \A n \in 1..Len(cards) : Len(cards[n].cells) = gridRows * gridCols

\* C22 as stated: after any sequence of generations and reshuffles, every
\* cell of every stored card is an item of the currently stored pool.
C22_CardsHoldStoredPoolItems ==
  \A n \in 1..Len(cards) : Range(cards[n].cells) \subseteq Range(items)

\* a step that enters handleDownloadPDF
ExportStarted ==
  /\ exportPc' = "timeout"
  /\ exportOutcome' = "none"
  /\ exportPc # "timeout" \/ exportOutcome # "none"

\* a step that leaves handleDownloadPDF (through finally)
ExportEnded == exportPc # "idle" /\ exportPc' = "idle"

\* C23: at most one export is in progress at any time: isDownloading is
\* true from the start of handleDownloadPDF until it finishes, a second
\* export cannot start while it is true, and it is reset to false on every
\* path, success or failure.
C23_ExportsAreSerialized ==
  [][ /\ isDownloading' <=> exportPc' # "idle"
      /\ ExportStarted
           => /\ ~isDownloading
              /\ exportPc = "idle"
              /\ isDownloading'
      /\ ExportEnded
           => /\ isDownloading
              /\ ~isDownloading'
              /\ exportOutcome' \in {"saved", "alert"}
    ]_vars

\* C23 witness: an export failed after a card had been placed, and
\* isDownloading is false again
C23_Witness ==
  /\ exportPc = "idle"
  /\ exportOutcome = "alert"
  /\ pdfImages # << >>
  /\ ~isDownloading

====
